---------------------------- MODULE Spec2Model ----------------------------
(***************************************************************************)
(* Model of the terminal unit converter (src/Converter-v3.c) and of its    *)
(* test driver (src/test_converter.c).                                     *)
(*                                                                         *)
(* Text is modelled as sequences of one-character strings, so that         *)
(* normalize_unit_name, fprintf and sscanf act on characters.              *)
(*                                                                         *)
(* A double is modelled as the exact rational it denotes, written          *)
(*     n / d * 2^p2 * 5^p5                                                 *)
(* with n, d coprime and coprime to 10 (zero is 0/1 * 2^0 * 5^0).  The     *)
(* factors of the registry are the decimal literals of the source.         *)
(* Rounding of binary floating point is not modelled; %.8g, which rounds   *)
(* to eight significant digits, is.                                        *)
(***************************************************************************)
EXTENDS Integers, Sequences, FiniteSets, TLC

VARIABLES
    cv_op,          \* which caller applied convert_value last ("none" at start)
    cv_value,       \* convert_value: argument value
    cv_from,        \* convert_value: argument from, as passed
    cv_to,          \* convert_value: argument to, as passed
    cv_ret,         \* convert_value: returned double
    history,        \* history[0 .. history_count-1]; history_count = Len(history)
    file,           \* conversion_history.txt: [exists, lines]
    clock,          \* time(NULL)
    appended,       \* number of add_history_entry calls since the log was last empty
    last_call,      \* the last operation on the history: [op, open_ok]
    errors,         \* number of "Error: ..." lines printed by print_error
    prev,           \* the process that ran before this one: [runs, log, persisted]
    hc,             \* handle_conversion: its position, locals and what it read
    proc,           \* main: [args, stdin, pc, menus, reads, status]
    nm,             \* a buffer given to normalize_unit_name: [raw, before, unit, calls]
    rt              \* a conversion there and back: [pc, back]

vars == <<cv_op, cv_value, cv_from, cv_to, cv_ret,
          history, file, clock, appended, last_call, errors, prev,
          hc, proc, nm, rt>>

ext_vars == <<hc, proc, nm, rt>>

cv_vars == <<cv_op, cv_value, cv_from, cv_to, cv_ret>>
hist_vars == <<history, file, clock, appended, last_call, errors, prev>>

-----------------------------------------------------------------------------
(* Program constants *)

MAX_HISTORY == 100

-----------------------------------------------------------------------------
(* Doubles as exact rationals *)

Abs(x) == IF x < 0 THEN -x ELSE x

Sign(x) == IF x < 0 THEN -1 ELSE 1

Min(a, b) == IF a < b THEN a ELSE b

RECURSIVE Gcd(_, _)
Gcd(a, b) == IF b = 0 THEN a ELSE Gcd(b, a % b)

RECURSIVE Pow(_, _)
Pow(b, k) == IF k = 0 THEN 1 ELSE b * Pow(b, k - 1)

\* The number of times q divides n (n > 0).
RECURSIVE Multiplicity(_, _)
Multiplicity(n, q) == IF n % q = 0 THEN 1 + Multiplicity(n \div q, q) ELSE 0

Zero == [n |-> 0, d |-> 1, p2 |-> 0, p5 |-> 0]

\* The normal form of n / d * 2^p2 * 5^p5 (d > 0).
Norm(n, d, p2, p5) ==
    IF n = 0 THEN Zero
    ELSE LET a  == Abs(n)
             n2 == Multiplicity(a, 2)
             n5 == Multiplicity(a, 5)
             d2 == Multiplicity(d, 2)
             d5 == Multiplicity(d, 5)
             a1 == a \div (Pow(2, n2) * Pow(5, n5))
             d1 == d \div (Pow(2, d2) * Pow(5, d5))
             g  == Gcd(a1, d1)
         IN  [n |-> Sign(n) * (a1 \div g), d |-> d1 \div g,
              p2 |-> p2 + n2 - d2, p5 |-> p5 + n5 - d5]

FromInt(k) == Norm(k, 1, 0, 0)

\* A decimal literal m * 10^(-s), such as 273.15 = Dec(27315, 2).
Dec(m, s) == Norm(m, 1, -s, -s)

Neg(a) == [a EXCEPT !.n = -a.n]

Mul(a, b) ==
    IF a.n = 0 \/ b.n = 0 THEN Zero
    ELSE LET g1 == Gcd(Abs(a.n), b.d)
             g2 == Gcd(Abs(b.n), a.d)
         IN  [n |-> (a.n \div g1) * (b.n \div g2),
              d |-> (a.d \div g2) * (b.d \div g1),
              p2 |-> a.p2 + b.p2, p5 |-> a.p5 + b.p5]

\* a / b for b # 0 (every divisor of the program is a factor of the registry
\* or a literal, none of them zero).
Div(a, b) ==
    Mul(a, [n |-> Sign(b.n) * b.d, d |-> Abs(b.n), p2 |-> -b.p2, p5 |-> -b.p5])

Add(a, b) ==
    IF a.n = 0 THEN b
    ELSE IF b.n = 0 THEN a
    ELSE LET m2 == Min(a.p2, b.p2)
             m5 == Min(a.p5, b.p5)
             an == a.n * Pow(2, a.p2 - m2) * Pow(5, a.p5 - m5)
             bn == b.n * Pow(2, b.p2 - m2) * Pow(5, b.p5 - m5)
         IN  Norm(an * b.d + bn * a.d, a.d * b.d, m2, m5)

Sub(a, b) == Add(a, Neg(b))

-----------------------------------------------------------------------------
(* Characters *)

Lower == <<"a", "b", "c", "d", "e", "f", "g", "h", "i", "j", "k", "l", "m",
           "n", "o", "p", "q", "r", "s", "t", "u", "v", "w", "x", "y", "z">>

Upper == <<"A", "B", "C", "D", "E", "F", "G", "H", "I", "J", "K", "L", "M",
           "N", "O", "P", "Q", "R", "S", "T", "U", "V", "W", "X", "Y", "Z">>

toupper(c) ==
    IF \E i \in 1..26 : Lower[i] = c
    THEN Upper[CHOOSE i \in 1..26 : Lower[i] = c]
    ELSE c

-----------------------------------------------------------------------------
(* The unit registry, in registration order *)

units ==
  <<
    [name |-> "Meter", symbol |-> <<"m">>, factor |-> [n |-> 1, d |-> 1, p2 |-> 0, p5 |-> 0],
     category |-> "Length", is_temp |-> FALSE, aliases |-> <<<<"m", "e", "t", "r", "e">>>>, alias_count |-> 1],  \* "m" 1.0, line 160
    [name |-> "Kilometer", symbol |-> <<"k", "m">>, factor |-> [n |-> 1, d |-> 1, p2 |-> 3, p5 |-> 3],
     category |-> "Length", is_temp |-> FALSE, aliases |-> <<<<"k", "i", "l", "o", "m", "e", "t", "r", "e">>>>, alias_count |-> 1],  \* "km" 1000.0, line 167
    [name |-> "Centimeter", symbol |-> <<"c", "m">>, factor |-> [n |-> 1, d |-> 1, p2 |-> -2, p5 |-> -2],
     category |-> "Length", is_temp |-> FALSE, aliases |-> <<<<"c", "e", "n", "t", "i", "m", "e", "t", "r", "e">>>>, alias_count |-> 1],  \* "cm" 0.01, line 174
    [name |-> "Millimeter", symbol |-> <<"m", "m">>, factor |-> [n |-> 1, d |-> 1, p2 |-> -3, p5 |-> -3],
     category |-> "Length", is_temp |-> FALSE, aliases |-> <<<<"m", "i", "l", "l", "i", "m", "e", "t", "r", "e">>>>, alias_count |-> 1],  \* "mm" 0.001, line 180
    [name |-> "Inch", symbol |-> <<"i", "n">>, factor |-> [n |-> 127, d |-> 1, p2 |-> -3, p5 |-> -4],
     category |-> "Length", is_temp |-> FALSE, aliases |-> <<<< >>>>, alias_count |-> 0],  \* "in" 0.0254, line 186
    [name |-> "Foot", symbol |-> <<"f", "t">>, factor |-> [n |-> 381, d |-> 1, p2 |-> -1, p5 |-> -4],
     category |-> "Length", is_temp |-> FALSE, aliases |-> <<<< >>>>, alias_count |-> 0],  \* "ft" 0.3048, line 192
    [name |-> "Yard", symbol |-> <<"y", "d">>, factor |-> [n |-> 1143, d |-> 1, p2 |-> -1, p5 |-> -4],
     category |-> "Length", is_temp |-> FALSE, aliases |-> <<<< >>>>, alias_count |-> 0],  \* "yd" 0.9144, line 198
    [name |-> "Mile", symbol |-> <<"m", "i">>, factor |-> [n |-> 12573, d |-> 1, p2 |-> 4, p5 |-> -3],
     category |-> "Length", is_temp |-> FALSE, aliases |-> <<<< >>>>, alias_count |-> 0],  \* "mi" 1609.344, line 204
    [name |-> "Light Year", symbol |-> <<"l", "y">>, factor |-> [n |-> 9461, d |-> 1, p2 |-> 12, p5 |-> 12],
     category |-> "Length", is_temp |-> FALSE, aliases |-> <<<< >>>>, alias_count |-> 0],  \* "ly" 9.461e15, line 210
    [name |-> "Bit", symbol |-> <<"b">>, factor |-> [n |-> 1, d |-> 1, p2 |-> 0, p5 |-> 0],
     category |-> "Digital Storage", is_temp |-> FALSE, aliases |-> <<<< >>>>, alias_count |-> 0],  \* "b" 1.0, line 217
    [name |-> "Byte", symbol |-> <<"B">>, factor |-> [n |-> 1, d |-> 1, p2 |-> 3, p5 |-> 0],
     category |-> "Digital Storage", is_temp |-> FALSE, aliases |-> <<<< >>>>, alias_count |-> 0],  \* "B" 8.0, line 223
    [name |-> "Kilobyte", symbol |-> <<"K", "B">>, factor |-> [n |-> 1, d |-> 1, p2 |-> 13, p5 |-> 0],
     category |-> "Digital Storage", is_temp |-> FALSE, aliases |-> <<<< >>>>, alias_count |-> 0],  \* "KB" 8192.0, line 229
    [name |-> "Megabyte", symbol |-> <<"M", "B">>, factor |-> [n |-> 1, d |-> 1, p2 |-> 23, p5 |-> 0],
     category |-> "Digital Storage", is_temp |-> FALSE, aliases |-> <<<< >>>>, alias_count |-> 0],  \* "MB" 8388608.0, line 235
    [name |-> "Gigabyte", symbol |-> <<"G", "B">>, factor |-> [n |-> 1, d |-> 1, p2 |-> 33, p5 |-> 0],
     category |-> "Digital Storage", is_temp |-> FALSE, aliases |-> <<<< >>>>, alias_count |-> 0],  \* "GB" 8589934592.0, line 241
    [name |-> "Terabyte", symbol |-> <<"T", "B">>, factor |-> [n |-> 1, d |-> 1, p2 |-> 43, p5 |-> 0],
     category |-> "Digital Storage", is_temp |-> FALSE, aliases |-> <<<< >>>>, alias_count |-> 0],  \* "TB" 8796093022208.0, line 247
    [name |-> "Joule", symbol |-> <<"J">>, factor |-> [n |-> 1, d |-> 1, p2 |-> 0, p5 |-> 0],
     category |-> "Energy", is_temp |-> FALSE, aliases |-> <<<< >>>>, alias_count |-> 0],  \* "J" 1.0, line 254
    [name |-> "Calorie", symbol |-> <<"c", "a", "l">>, factor |-> [n |-> 523, d |-> 1, p2 |-> 0, p5 |-> -3],
     category |-> "Energy", is_temp |-> FALSE, aliases |-> <<<< >>>>, alias_count |-> 0],  \* "cal" 4.184, line 260
    [name |-> "Kilowatt Hour", symbol |-> <<"k", "W", "h">>, factor |-> [n |-> 9, d |-> 1, p2 |-> 7, p5 |-> 5],
     category |-> "Energy", is_temp |-> FALSE, aliases |-> <<<< >>>>, alias_count |-> 0],  \* "kWh" 3600000.0, line 266
    [name |-> "Electron Volt", symbol |-> <<"e", "V">>, factor |-> [n |-> 801, d |-> 1, p2 |-> -21, p5 |-> -22],
     category |-> "Energy", is_temp |-> FALSE, aliases |-> <<<< >>>>, alias_count |-> 0],  \* "eV" 1.602e-19, line 272
    [name |-> "Watt", symbol |-> <<"W">>, factor |-> [n |-> 1, d |-> 1, p2 |-> 0, p5 |-> 0],
     category |-> "Power", is_temp |-> FALSE, aliases |-> <<<< >>>>, alias_count |-> 0],  \* "W" 1.0, line 279
    [name |-> "Horsepower", symbol |-> <<"h", "p">>, factor |-> [n |-> 7457, d |-> 1, p2 |-> -1, p5 |-> -1],
     category |-> "Power", is_temp |-> FALSE, aliases |-> <<<< >>>>, alias_count |-> 0],  \* "hp" 745.7, line 285
    [name |-> "Kilowatt", symbol |-> <<"k", "W">>, factor |-> [n |-> 1, d |-> 1, p2 |-> 3, p5 |-> 3],
     category |-> "Power", is_temp |-> FALSE, aliases |-> <<<< >>>>, alias_count |-> 0],  \* "kW" 1000.0, line 291
    [name |-> "Pascal", symbol |-> <<"P", "a">>, factor |-> [n |-> 1, d |-> 1, p2 |-> 0, p5 |-> 0],
     category |-> "Pressure", is_temp |-> FALSE, aliases |-> <<<< >>>>, alias_count |-> 0],  \* "Pa" 1.0, line 298
    [name |-> "Bar", symbol |-> <<"b", "a", "r">>, factor |-> [n |-> 1, d |-> 1, p2 |-> 5, p5 |-> 5],
     category |-> "Pressure", is_temp |-> FALSE, aliases |-> <<<< >>>>, alias_count |-> 0],  \* "bar" 100000.0, line 304
    [name |-> "Atmosphere", symbol |-> <<"a", "t", "m">>, factor |-> [n |-> 4053, d |-> 1, p2 |-> 0, p5 |-> 2],
     category |-> "Pressure", is_temp |-> FALSE, aliases |-> <<<< >>>>, alias_count |-> 0],  \* "atm" 101325.0, line 310
    [name |-> "PSI", symbol |-> <<"p", "s", "i">>, factor |-> [n |-> 172369, d |-> 1, p2 |-> 0, p5 |-> -2],
     category |-> "Pressure", is_temp |-> FALSE, aliases |-> <<<< >>>>, alias_count |-> 0],  \* "psi" 6894.76, line 316
    [name |-> "Celsius", symbol |-> <<"C">>, factor |-> [n |-> 1, d |-> 1, p2 |-> 0, p5 |-> 0],
     category |-> "Temperature", is_temp |-> TRUE, aliases |-> <<<< >>>>, alias_count |-> 0],  \* "C" 1.0, line 323
    [name |-> "Fahrenheit", symbol |-> <<"F">>, factor |-> [n |-> 1, d |-> 1, p2 |-> 0, p5 |-> 0],
     category |-> "Temperature", is_temp |-> TRUE, aliases |-> <<<< >>>>, alias_count |-> 0],  \* "F" 1.0, line 324
    [name |-> "Kelvin", symbol |-> <<"K">>, factor |-> [n |-> 1, d |-> 1, p2 |-> 0, p5 |-> 0],
     category |-> "Temperature", is_temp |-> TRUE, aliases |-> <<<< >>>>, alias_count |-> 0],  \* "K" 1.0, line 325
    [name |-> "Kilobyte", symbol |-> <<"K", "B">>, factor |-> [n |-> 1, d |-> 1, p2 |-> 10, p5 |-> 0],
     category |-> "Data", is_temp |-> FALSE, aliases |-> <<<< >>>>, alias_count |-> 0],  \* "KB" 1024.0, line 328
    [name |-> "Megabyte", symbol |-> <<"M", "B">>, factor |-> [n |-> 1, d |-> 1, p2 |-> 20, p5 |-> 0],
     category |-> "Data", is_temp |-> FALSE, aliases |-> <<<< >>>>, alias_count |-> 0],  \* "MB" 1048576.0, line 329
    [name |-> "Gigabyte", symbol |-> <<"G", "B">>, factor |-> [n |-> 1, d |-> 1, p2 |-> 30, p5 |-> 0],
     category |-> "Data", is_temp |-> FALSE, aliases |-> <<<< >>>>, alias_count |-> 0],  \* "GB" 1073741824.0, line 330
    [name |-> "Terabyte", symbol |-> <<"T", "B">>, factor |-> [n |-> 1, d |-> 1, p2 |-> 40, p5 |-> 0],
     category |-> "Data", is_temp |-> FALSE, aliases |-> <<<< >>>>, alias_count |-> 0],  \* "TB" 1099511627776.0, line 331
    [name |-> "Gram", symbol |-> <<"g">>, factor |-> [n |-> 1, d |-> 1, p2 |-> 0, p5 |-> 0],
     category |-> "Mass", is_temp |-> FALSE, aliases |-> <<<< >>>>, alias_count |-> 0],  \* "g" 1.0, line 334
    [name |-> "Kilogram", symbol |-> <<"k", "g">>, factor |-> [n |-> 1, d |-> 1, p2 |-> 3, p5 |-> 3],
     category |-> "Mass", is_temp |-> FALSE, aliases |-> <<<< >>>>, alias_count |-> 0],  \* "kg" 1000.0, line 335
    [name |-> "Milligram", symbol |-> <<"m", "g">>, factor |-> [n |-> 1, d |-> 1, p2 |-> -3, p5 |-> -3],
     category |-> "Mass", is_temp |-> FALSE, aliases |-> <<<< >>>>, alias_count |-> 0],  \* "mg" 0.001, line 336
    [name |-> "Pound", symbol |-> <<"l", "b">>, factor |-> [n |-> 45359237, d |-> 1, p2 |-> -5, p5 |-> -5],
     category |-> "Mass", is_temp |-> FALSE, aliases |-> <<<< >>>>, alias_count |-> 0],  \* "lb" 453.59237, line 337
    [name |-> "Ounce", symbol |-> <<"o", "z">>, factor |-> [n |-> 45359237, d |-> 1, p2 |-> -9, p5 |-> -5],
     category |-> "Mass", is_temp |-> FALSE, aliases |-> <<<< >>>>, alias_count |-> 0],  \* "oz" 28.349523125, line 338
    [name |-> "Second", symbol |-> <<"s">>, factor |-> [n |-> 1, d |-> 1, p2 |-> 0, p5 |-> 0],
     category |-> "Time", is_temp |-> FALSE, aliases |-> <<<< >>>>, alias_count |-> 0],  \* "s" 1.0, line 341
    [name |-> "Minute", symbol |-> <<"m", "i", "n">>, factor |-> [n |-> 3, d |-> 1, p2 |-> 2, p5 |-> 1],
     category |-> "Time", is_temp |-> FALSE, aliases |-> <<<< >>>>, alias_count |-> 0],  \* "min" 60.0, line 342
    [name |-> "Hour", symbol |-> <<"h", "r">>, factor |-> [n |-> 9, d |-> 1, p2 |-> 4, p5 |-> 2],
     category |-> "Time", is_temp |-> FALSE, aliases |-> <<<< >>>>, alias_count |-> 0],  \* "hr" 3600.0, line 343
    [name |-> "Day", symbol |-> <<"d", "a", "y">>, factor |-> [n |-> 27, d |-> 1, p2 |-> 7, p5 |-> 2],
     category |-> "Time", is_temp |-> FALSE, aliases |-> <<<< >>>>, alias_count |-> 0],  \* "day" 86400.0, line 344
    [name |-> "Week", symbol |-> <<"w", "e", "e", "k">>, factor |-> [n |-> 189, d |-> 1, p2 |-> 7, p5 |-> 2],
     category |-> "Time", is_temp |-> FALSE, aliases |-> <<<< >>>>, alias_count |-> 0],  \* "week" 604800.0, line 345
    [name |-> "Liter", symbol |-> <<"L">>, factor |-> [n |-> 1, d |-> 1, p2 |-> 0, p5 |-> 0],
     category |-> "Volume", is_temp |-> FALSE, aliases |-> <<<<"l", "i", "t", "r", "e">>>>, alias_count |-> 1],  \* "L" 1.0, line 348
    [name |-> "Milliliter", symbol |-> <<"m", "L">>, factor |-> [n |-> 1, d |-> 1, p2 |-> -3, p5 |-> -3],
     category |-> "Volume", is_temp |-> FALSE, aliases |-> <<<<"m", "i", "l", "l", "i", "l", "i", "t", "r", "e">>>>, alias_count |-> 1],  \* "mL" 0.001, line 349
    [name |-> "Gallon", symbol |-> <<"g", "a", "l">>, factor |-> [n |-> 473176473, d |-> 1, p2 |-> -6, p5 |-> -9],
     category |-> "Volume", is_temp |-> FALSE, aliases |-> <<<< >>>>, alias_count |-> 0],  \* "gal" 3.785411784, line 350
    [name |-> "Quart", symbol |-> <<"q", "t">>, factor |-> [n |-> 473176473, d |-> 1, p2 |-> -8, p5 |-> -9],
     category |-> "Volume", is_temp |-> FALSE, aliases |-> <<<< >>>>, alias_count |-> 0],  \* "qt" 0.946352946, line 351
    [name |-> "Pint", symbol |-> <<"p", "t">>, factor |-> [n |-> 473176473, d |-> 1, p2 |-> -9, p5 |-> -9],
     category |-> "Volume", is_temp |-> FALSE, aliases |-> <<<< >>>>, alias_count |-> 0],  \* "pt" 0.473176473, line 352
    [name |-> "Square Meter", symbol |-> <<"m", "2">>, factor |-> [n |-> 1, d |-> 1, p2 |-> 0, p5 |-> 0],
     category |-> "Area", is_temp |-> FALSE, aliases |-> <<<<"s", "q", "m">>>>, alias_count |-> 1],  \* "m2" 1.0, line 355
    [name |-> "Square Kilometer", symbol |-> <<"k", "m", "2">>, factor |-> [n |-> 1, d |-> 1, p2 |-> 6, p5 |-> 6],
     category |-> "Area", is_temp |-> FALSE, aliases |-> <<<<"s", "q", "k", "m">>>>, alias_count |-> 1],  \* "km2" 1000000.0, line 356
    [name |-> "Square Foot", symbol |-> <<"f", "t", "2">>, factor |-> [n |-> 145161, d |-> 1, p2 |-> -2, p5 |-> -8],
     category |-> "Area", is_temp |-> FALSE, aliases |-> <<<<"s", "q", "f", "t">>>>, alias_count |-> 1],  \* "ft2" 0.09290304, line 357
    [name |-> "Square Mile", symbol |-> <<"m", "i", "2">>, factor |-> [n |-> 158080329, d |-> 1, p2 |-> 8, p5 |-> -6],
     category |-> "Area", is_temp |-> FALSE, aliases |-> <<<<"s", "q", "m", "i">>>>, alias_count |-> 1],  \* "mi2" 2589988.110336, line 358
    [name |-> "Acre", symbol |-> <<"a", "c">>, factor |-> [n |-> 158080329, d |-> 1, p2 |-> 1, p5 |-> -7],
     category |-> "Area", is_temp |-> FALSE, aliases |-> <<<< >>>>, alias_count |-> 0],  \* "ac" 4046.8564224, line 359
    [name |-> "Meter per Second", symbol |-> <<"m", "/", "s">>, factor |-> [n |-> 1, d |-> 1, p2 |-> 0, p5 |-> 0],
     category |-> "Speed", is_temp |-> FALSE, aliases |-> <<<< >>>>, alias_count |-> 0],  \* "m/s" 1.0, line 362
    [name |-> "Kilometer per Hour", symbol |-> <<"k", "m", "/", "h">>, factor |-> [n |-> 138888889, d |-> 1, p2 |-> -8, p5 |-> -9],
     category |-> "Speed", is_temp |-> FALSE, aliases |-> <<<<"k", "p", "h">>>>, alias_count |-> 1],  \* "km/h" 0.277777778, line 363
    [name |-> "Mile per Hour", symbol |-> <<"m", "p", "h">>, factor |-> [n |-> 1397, d |-> 1, p2 |-> 0, p5 |-> -5],
     category |-> "Speed", is_temp |-> FALSE, aliases |-> <<<< >>>>, alias_count |-> 0],  \* "mph" 0.44704, line 364
    [name |-> "Knot", symbol |-> <<"k", "t">>, factor |-> [n |-> 128611111, d |-> 1, p2 |-> -7, p5 |-> -9],
     category |-> "Speed", is_temp |-> FALSE, aliases |-> <<<< >>>>, alias_count |-> 0]  \* "kt" 0.514444444, line 365
  >>

unit_count == Len(units)

\* normalize_unit_name with a second loop that stops after the first space
\* it removes.
normalize_unit_name_FirstSpace(unit) ==
    LET up == [i \in 1..Len(unit) |-> toupper(unit[i])]
        sp == {i \in 1..Len(unit) : unit[i] = " "}
    IN  IF sp = {} THEN up
        ELSE [i \in 1..(Len(up) - 1) |->
                 IF \A k \in sp : i < k THEN up[i] ELSE up[i + 1]]

\* normalize_unit_name: uppercase every character, then remove the spaces.
normalize_unit_name(unit) ==
    LET up == [i \in 1..Len(unit) |-> toupper(unit[i])]
    IN  SelectSeq(up, LAMBDA c : c # " ")

\* The local normalized_symbol of unit_exists and convert_value, per unit.
normalized_symbol == [i \in 1..unit_count |-> normalize_unit_name(units[i].symbol)]

unit_exists(unit, category) ==
    \E i \in 1..unit_count :
        /\ units[i].category = category \/ category = "All"
        /\ \/ normalized_symbol[i] = unit
           \/ \E j \in 1..units[i].alias_count : units[i].aliases[j] = unit

TempScales == {<<"C">>, <<"F">>, <<"K">>}

\* convert_temperature with the Fahrenheit offset removed after the scaling,
\* value * 5/9 - 32, instead of before it.
convert_temperature_OffsetLast(value, from, to) ==
    IF from \notin TempScales THEN value
    ELSE LET celsius ==
                 IF from = <<"C">> THEN value
                 ELSE IF from = <<"F">>
                      THEN Sub(Div(Mul(value, FromInt(5)), FromInt(9)), FromInt(32))
                 ELSE Sub(value, Dec(27315, 2))
         IN  IF to = <<"C">> THEN celsius
             ELSE IF to = <<"F">>
                  THEN Add(Div(Mul(celsius, FromInt(9)), FromInt(5)), FromInt(32))
             ELSE IF to = <<"K">> THEN Add(celsius, Dec(27315, 2))
             ELSE value

\* convert_temperature adding 273.15 where a Kelvin input is turned into
\* Celsius.
convert_temperature_KelvinUp(value, from, to) ==
    IF from \notin TempScales THEN value
    ELSE LET celsius ==
                 IF from = <<"C">> THEN value
                 ELSE IF from = <<"F">>
                      THEN Div(Mul(Sub(value, FromInt(32)), FromInt(5)), FromInt(9))
                 ELSE Add(value, Dec(27315, 2))
         IN  IF to = <<"C">> THEN celsius
             ELSE IF to = <<"F">>
                  THEN Add(Div(Mul(celsius, FromInt(9)), FromInt(5)), FromInt(32))
             ELSE IF to = <<"K">> THEN Add(celsius, Dec(27315, 2))
             ELSE value

convert_temperature(value, from, to) ==
    IF from \notin TempScales THEN value
    ELSE LET celsius ==
                 IF from = <<"C">> THEN value
                 ELSE IF from = <<"F">>
                      THEN Div(Mul(Sub(value, FromInt(32)), FromInt(5)), FromInt(9))
                 ELSE Sub(value, Dec(27315, 2))
         IN  IF to = <<"C">> THEN celsius
             ELSE IF to = <<"F">>
                  THEN Add(Div(Mul(celsius, FromInt(9)), FromInt(5)), FromInt(32))
             ELSE IF to = <<"K">> THEN Add(celsius, Dec(27315, 2))
             ELSE value

\* The factor the second loop of convert_value leaves for a token: that of
\* the last unit whose normalized symbol equals it, 1.0 when there is none.
FactorOf(token) ==
    LET hits == {i \in 1..unit_count : normalized_symbol[i] = token}
    IN  IF hits = {} THEN FromInt(1)
        ELSE units[CHOOSE i \in hits : \A j \in hits : j <= i].factor

convert_value(value, from, to) ==
    LET is_temp_conversion ==
            \E i \in 1..unit_count :
                normalized_symbol[i] = from /\ units[i].is_temp
    IN  IF is_temp_conversion
        THEN convert_temperature(value, from, to)
        ELSE Div(Mul(value, FactorOf(from)), FactorOf(to))

-----------------------------------------------------------------------------
(* printf and scanf conversions, on sequences of characters *)

DigitChars == <<"0", "1", "2", "3", "4", "5", "6", "7", "8", "9">>

IsDigit(c) == \E i \in 1..10 : DigitChars[i] = c

DigitValue(c) == (CHOOSE i \in 1..10 : DigitChars[i] = c) - 1

IsSpace(c) == c \in {" ", "\t", "\n"}

\* The decimal digits of k >= 0, most significant first.
RECURSIVE IntDigits(_)
IntDigits(k) == IF k < 10 THEN <<k>> ELSE Append(IntDigits(k \div 10), k % 10)

DigitsText(ds) == [i \in 1..Len(ds) |-> DigitChars[ds[i] + 1]]

RECURSIVE DigitsInt(_)
DigitsInt(ds) ==
    IF ds = << >> THEN 0
    ELSE 10 * DigitsInt(SubSeq(ds, 1, Len(ds) - 1)) + ds[Len(ds)]

RECURSIVE StripTrailingZeros(_)
StripTrailingZeros(ds) ==
    IF ds # << >> /\ ds[Len(ds)] = 0
    THEN StripTrailingZeros(SubSeq(ds, 1, Len(ds) - 1))
    ELSE ds

RECURSIVE LeadingZeros(_)
LeadingZeros(ds) ==
    IF ds # << >> /\ ds[1] = 0 THEN 1 + LeadingZeros(Tail(ds)) ELSE 0

Zeros(k) == [i \in 1..k |-> 0]

Drop(s, k) == SubSeq(s, k + 1, Len(s))

\* %ld
FormatLd(k) == IF k < 0 THEN <<"-">> \o DigitsText(IntDigits(-k)) ELSE DigitsText(IntDigits(k))

\* Digits of the fraction r / D (r < D) by long division, until `need`
\* significant digits are out or the remainder is zero; `started` says that
\* a significant digit came before.  [digits, rem].
RECURSIVE FracDigits(_, _, _, _)
FracDigits(r, D, need, started) ==
    IF r = 0 \/ need = 0 THEN [digits |-> << >>, rem |-> r]
    ELSE LET dg   == (r * 10) \div D
             st   == started \/ dg # 0
             rest == FracDigits((r * 10) % D, D, IF st THEN need - 1 ELSE need, st)
         IN  [digits |-> <<dg>> \o rest.digits, rem |-> rest.rem]

\* The numerator and the denominator of |x| as a plain fraction.
PlainNum(x) ==
    Abs(x.n) * Pow(2, IF x.p2 > 0 THEN x.p2 ELSE 0) * Pow(5, IF x.p5 > 0 THEN x.p5 ELSE 0)

PlainDen(x) ==
    x.d * Pow(2, IF x.p2 < 0 THEN -x.p2 ELSE 0) * Pow(5, IF x.p5 < 0 THEN -x.p5 ELSE 0)

\* Rounding to eight significant digits, ties to even: sig holds the
\* significant digits (at least nine, padded with zeros), x10 the decimal
\* exponent of the first, more says that nonzero digits follow those of sig.
\* [m, x10] with 10^7 <= m < 10^8 and the value m * 10^(x10 - 7).
RoundSig(sig, x10, more) ==
    LET m8 == DigitsInt(SubSeq(sig, 1, 8))
        up == \/ sig[9] > 5
              \/ /\ sig[9] = 5
                 /\ \/ more
                    \/ \E i \in 10..Len(sig) : sig[i] # 0
                    \/ m8 % 2 = 1
    IN  IF up /\ m8 = 99999999 THEN [m |-> 10000000, x10 |-> x10 + 1]
        ELSE [m |-> IF up THEN m8 + 1 ELSE m8, x10 |-> x10]

\* int: the digits of the integer part (none when it is zero); frac: the
\* digits after the point and the remainder left.
RoundDigits(int, frac) ==
    LET lz == LeadingZeros(int \o frac.digits)
    IN  RoundSig(Drop(int \o frac.digits, lz) \o Zeros(9),
                 IF int # << >> THEN Len(int) - 1 ELSE -(lz + 1),
                 frac.rem # 0)

RoundFraction(int, r, D) ==
    RoundDigits(int, FracDigits(r, D, IF Len(int) >= 9 THEN 0 ELSE 9 - Len(int),
                                int # << >>))

\* |x| rounded to eight significant digits, for x # 0.
Round8(x) ==
    RoundFraction(IF PlainNum(x) < PlainDen(x) THEN << >>
                  ELSE IntDigits(PlainNum(x) \div PlainDen(x)),
                  PlainNum(x) % PlainDen(x), PlainDen(x))

WithPoint(int, frac) == IF frac = << >> THEN int ELSE int \o <<".">> \o frac

\* The eight digits ds with decimal exponent x10, in the style %g chooses.
FormatDigits(ds, x10) ==
    IF x10 < -4 \/ x10 >= 8
    THEN WithPoint(DigitsText(<<ds[1]>>), DigitsText(StripTrailingZeros(Tail(ds))))
             \o <<"e", IF x10 < 0 THEN "-" ELSE "+">>
             \o DigitsText(IF Abs(x10) < 10 THEN <<0, Abs(x10)>> ELSE IntDigits(Abs(x10)))
    ELSE IF x10 >= 0
    THEN WithPoint(DigitsText(SubSeq(ds, 1, x10 + 1)),
                   DigitsText(StripTrailingZeros(SubSeq(ds, x10 + 2, 8))))
    ELSE WithPoint(<<"0">>, DigitsText(StripTrailingZeros(Zeros(-x10 - 1) \o ds)))

FormatRounded(r) == FormatDigits(IntDigits(r.m), r.x10)

\* %.8g
FormatG8(x) ==
    IF x.n = 0 THEN <<"0">>
    ELSE (IF x.n < 0 THEN <<"-">> ELSE << >>) \o FormatRounded(Round8(x))

RECURSIVE SkipSpace(_)
SkipSpace(s) == IF s # << >> /\ IsSpace(s[1]) THEN SkipSpace(Tail(s)) ELSE s

\* The longest prefix of s made of digits.
RECURSIVE SpanDigits(_)
SpanDigits(s) ==
    IF s # << >> /\ IsDigit(s[1]) THEN <<s[1]>> \o SpanDigits(Tail(s)) ELSE << >>

\* The longest prefix of s without a comma.
RECURSIVE SpanNotComma(_)
SpanNotComma(s) ==
    IF s # << >> /\ s[1] # "," THEN <<s[1]>> \o SpanNotComma(Tail(s)) ELSE << >>

DigitsOf(s) == [i \in 1..Len(s) |-> DigitValue(s[i])]

HasMinus(s) == s # << >> /\ s[1] = "-"

AfterSign(s) == IF s # << >> /\ s[1] \in {"-", "+"} THEN Tail(s) ELSE s

Signed(neg, k) == IF neg THEN -k ELSE k

NoMatch(s0) == [ok |-> FALSE, rest |-> s0]

\* %ld: skips white space, then an optional sign and at least one digit.
\* [ok, value, rest].
ScanLdDigits(s0, neg, s1, ds) ==
    IF ds = << >> THEN NoMatch(s0)
    ELSE [ok |-> TRUE, value |-> Signed(neg, DigitsInt(DigitsOf(ds))),
          rest |-> Drop(s1, Len(ds))]

ScanLdSigned(s0, s) == ScanLdDigits(s0, HasMinus(s), AfterSign(s), SpanDigits(AfterSign(s)))

ScanLd(s0) == ScanLdSigned(s0, SkipSpace(s0))

\* %lf (strtod): skips white space, then an optional sign, digits with an
\* optional point, and an optional exponent, which counts only when a digit
\* follows the e and its sign.  [ok, value, rest].
ScanLfExponent(neg, mant, nfrac, s3, e2, eds) ==
    IF eds = << >>
    THEN [ok |-> TRUE, value |-> Norm(Signed(neg, mant), 1, -nfrac, -nfrac), rest |-> s3]
    ELSE [ok |-> TRUE,
          value |-> Norm(Signed(neg, mant), 1,
                         Signed(HasMinus(e2), DigitsInt(DigitsOf(eds))) - nfrac,
                         Signed(HasMinus(e2), DigitsInt(DigitsOf(eds))) - nfrac),
          rest |-> Drop(AfterSign(e2), Len(eds))]

ScanLfMantissa(s0, neg, int, frac, s3) ==
    IF int = << >> /\ frac = << >> THEN NoMatch(s0)
    ELSE IF s3 # << >> /\ s3[1] \in {"e", "E"}
    THEN ScanLfExponent(neg, DigitsInt(DigitsOf(int \o frac)), Len(frac), s3,
                        Tail(s3), SpanDigits(AfterSign(Tail(s3))))
    ELSE ScanLfExponent(neg, DigitsInt(DigitsOf(int \o frac)), Len(frac), s3,
                        << >>, << >>)

ScanLfPoint(s0, neg, int, s2) ==
    IF s2 # << >> /\ s2[1] = "."
    THEN ScanLfMantissa(s0, neg, int, SpanDigits(Tail(s2)),
                        Drop(s2, 1 + Len(SpanDigits(Tail(s2)))))
    ELSE ScanLfMantissa(s0, neg, int, << >>, s2)

ScanLfDigits(s0, neg, s1, int) == ScanLfPoint(s0, neg, int, Drop(s1, Len(int)))

ScanLfSigned(s0, s) == ScanLfDigits(s0, HasMinus(s), AfterSign(s), SpanDigits(AfterSign(s)))

ScanLf(s0) == ScanLfSigned(s0, SkipSpace(s0))

\* %[^,]: at least one character other than a comma, no white space skipped.
ScanFieldSpan(s, f) == IF f = << >> THEN NoMatch(s) ELSE [ok |-> TRUE, value |-> f, rest |-> Drop(s, Len(f))]

ScanField(s) == ScanFieldSpan(s, SpanNotComma(s))

\* A literal comma of the format, after the conversion that gave r.
ScanComma(r) == r.rest # << >> /\ r.rest[1] = ","

\* sscanf(line, "%[^,],%[^,],%lf,%lf,%ld", ...): the number of fields
\* assigned, and their values when all five are.
Sscanf5(f1, f2, f3, f4, f5) ==
    IF ~f5.ok THEN [count |-> 4]
    ELSE [count |-> 5, from |-> f1.value, to |-> f2.value, value |-> f3.value,
          result |-> f4.value, timestamp |-> f5.value]

Sscanf4(f1, f2, f3, f4) ==
    IF ~f4.ok THEN [count |-> 3]
    ELSE IF ~ScanComma(f4) THEN [count |-> 4]
    ELSE Sscanf5(f1, f2, f3, f4, ScanLd(Tail(f4.rest)))

Sscanf3(f1, f2, f3) ==
    IF ~f3.ok THEN [count |-> 2]
    ELSE IF ~ScanComma(f3) THEN [count |-> 3]
    ELSE Sscanf4(f1, f2, f3, ScanLf(Tail(f3.rest)))

Sscanf2(f1, f2) ==
    IF ~f2.ok THEN [count |-> 1]
    ELSE IF ~ScanComma(f2) THEN [count |-> 2]
    ELSE Sscanf3(f1, f2, ScanLf(Tail(f2.rest)))

Sscanf1(f1) ==
    IF ~f1.ok THEN [count |-> 0]
    ELSE IF ~ScanComma(f1) THEN [count |-> 1]
    ELSE Sscanf2(f1, ScanField(Tail(f1.rest)))

Sscanf(line) == Sscanf1(ScanField(line))

-----------------------------------------------------------------------------
(* Inputs of the conversion calls *)

MaxInt == 3

Symbols == {units[i].symbol : i \in 1..unit_count}

\* Tokens a caller may pass: every registered symbol as written, a token
\* that names no unit, a token with a space, and the empty token.
Tokens == Symbols \cup {<<"X", "Y", "Z">>, <<"k", " ", "m">>, << >>}

\* 273.15 is offered where the source scale is a temperature: its exact
\* product with a nine-digit factor does not fit TLC's integers.
Values == {FromInt(k) : k \in 0..MaxInt} \cup {FromInt(32), FromInt(1000), FromInt(1024)}

Inputs ==
    {<<v, f, t>> : v \in Values, f \in Tokens, t \in Tokens}
        \cup {<<Dec(27315, 2), f, t>> : f \in TempScales, t \in Tokens}

-----------------------------------------------------------------------------
(* The history store, at rest *)

NoFile == [exists |-> FALSE, lines |-> << >>]

\* A reading of time(NULL).
Epoch == 17 * 100000000

\* handle_conversion has not been called.
HcIdle ==
    [pc |-> "idle", category |-> "", attempts |-> 0, seen |-> << >>, input |-> << >>,
     value |-> Zero, from_unit |-> << >>, to_unit |-> << >>, calls |-> 0]

\* main was started without arguments and has not returned.
ProcIdle ==
    [args |-> << >>, stdin |-> << >>, pc |-> "running", menus |-> 0, reads |-> 0,
     status |-> 0]

NmIdle == [raw |-> << >>, before |-> << >>, unit |-> << >>, calls |-> 0]

RtIdle == [pc |-> "none", back |-> Zero]

\* The log and the clock of a process that has just started.
FreshLog ==
    /\ history = << >>
    /\ clock = Epoch
    /\ appended = 0
    /\ last_call = [op |-> "start", open_ok |-> TRUE]
    /\ errors = 0
    /\ prev = [runs |-> 0, log |-> << >>, persisted |-> FALSE]

\* A process that has just started.
FreshProcess ==
    /\ FreshLog
    /\ hc = HcIdle
    /\ proc = ProcIdle
    /\ nm = NmIdle
    /\ rt = RtIdle

\* A process that has just started, in a directory without a history file.
HistIdle == FreshProcess /\ file = NoFile

\* No conversion has been asked for.
ConvIdle ==
    /\ cv_op = "none"
    /\ cv_value = Zero
    /\ cv_from = << >>
    /\ cv_to = << >>
    /\ cv_ret = Zero

-----------------------------------------------------------------------------
(* Conversion calls *)

InitConv ==
    /\ \E inp \in Inputs :
          /\ cv_value = inp[1]
          /\ cv_from = inp[2]
          /\ cv_to = inp[3]
    /\ cv_op = "none"
    /\ cv_ret = Zero
    /\ HistIdle

\* test_conversion: the tokens are copied and passed as they are written.
TestConversion ==
    /\ cv_op = "none"
    /\ cv_op' = "test"
    /\ cv_ret' = convert_value(cv_value, cv_from, cv_to)
    /\ UNCHANGED <<ext_vars, cv_value, cv_from, cv_to, hist_vars>>

\* batch_conversion: both tokens are read by get_clean_input, which
\* normalizes them, and are passed to convert_value with no further check.
BatchConvertCall ==
    /\ cv_op = "none"
    /\ cv_op' = "batch"
    /\ LET from_unit == normalize_unit_name(cv_from)
           to_unit   == normalize_unit_name(cv_to)
       IN  /\ cv_from' = from_unit
           /\ cv_to' = to_unit
           /\ cv_ret' = convert_value(cv_value, from_unit, to_unit)
    /\ UNCHANGED <<ext_vars, cv_value, hist_vars>>

NextConv == TestConversion \/ BatchConvertCall

SpecConv == InitConv /\ [][NextConv]_vars

-----------------------------------------------------------------------------
(* The history store *)

history_count == Len(history)

\* strncpy(dst, src, sizeof(dst) - 1) into a char[16], then dst[15] = '\0'.
Copy15(s) == SubSeq(s, 1, Min(Len(s), 15))

NewEntry(from, to, val, res, now) ==
    [from |-> Copy15(from), to |-> Copy15(to), value |-> val, result |-> res,
     timestamp |-> now]

\* StoreEntry without the move: on a full log the last slot is overwritten.
StoreEntry_NoShift(h, e) ==
    IF Len(h) < MAX_HISTORY THEN Append(h, e)
    ELSE [h EXCEPT ![MAX_HISTORY] = e]

\* The array after add_history_entry has stored e: appended while there is
\* room, else every entry moved down by one and e put in the last slot.
StoreEntry(h, e) ==
    IF Len(h) < MAX_HISTORY THEN Append(h, e)
    ELSE [i \in 1..MAX_HISTORY |-> IF i < MAX_HISTORY THEN h[i + 1] ELSE e]

\* One line of the history file, without its "\n".
FormatRecord(e) ==
    e.from \o <<",">> \o e.to \o <<",">> \o FormatG8(e.value) \o <<",">>
        \o FormatG8(e.result) \o <<",">> \o FormatLd(e.timestamp)

\* save_history opening the file with "a": the log is written after what the
\* file holds.
save_history_AppendMode(h, f, open_ok) ==
    IF open_ok
    THEN [exists |-> TRUE, lines |-> f.lines \o [i \in 1..Len(h) |-> FormatRecord(h[i])]]
    ELSE f

\* save_history removing the old file before it opens the new one.
save_history_RemoveFirst(h, f, open_ok) ==
    IF open_ok
    THEN [exists |-> TRUE, lines |-> [i \in 1..Len(h) |-> FormatRecord(h[i])]]
    ELSE NoFile

\* The file after save_history: rewritten from the log when fopen(.., "w")
\* succeeds, left as it is when fopen fails.
save_history(h, f, open_ok) ==
    IF open_ok
    THEN [exists |-> TRUE, lines |-> [i \in 1..Len(h) |-> FormatRecord(h[i])]]
    ELSE f

\* The loop of load_history over the lines left to read.  Lines are shorter
\* than the 256-byte buffer, and the files offered have no field longer than
\* 15 characters before the second comma (a longer one overruns from[16] or
\* to[16]).
\* The log after one line that sscanf read as r.
LoadLine(h, r) ==
    IF r.count = 5
    THEN Append(h, NewEntry(r.from, r.to, r.value, r.result, r.timestamp))
    ELSE h

RECURSIVE LoadLines(_, _)
LoadLines(lines, h) ==
    IF lines = << >> \/ Len(h) >= MAX_HISTORY THEN h
    ELSE LoadLines(Tail(lines), LoadLine(h, Sscanf(Head(lines))))

load_history(h, f) == IF f.exists THEN LoadLines(f.lines, h) ELSE h

\* add_history_entry, with the save_history call that ends it.
AddHistoryEntry(from, to, val, res, open_ok) ==
    /\ LET h == StoreEntry(history, NewEntry(from, to, val, res, clock))
       IN  /\ history' = h
           /\ file' = save_history(h, file, open_ok)
    /\ errors' = IF open_ok THEN errors ELSE errors + 1
    /\ appended' = appended + 1

-----------------------------------------------------------------------------
(* A long run of conversions on one log *)

MaxAppends == 102

MaxOpenFailures == 2

KM == <<"K", "M">>

M == <<"M">>

InitHist == ConvIdle /\ HistIdle

\* One value of batch_conversion's loop: the conversion, then
\* add_history_entry.  The k-th value entered is k, from KM to M; the whole
\* batch falls within one second.
ConvertAndRecord ==
    /\ appended < MaxAppends
    /\ \E open_ok \in BOOLEAN :
          LET value  == FromInt(appended + 1)
              result == convert_value(value, KM, M)
          IN  /\ open_ok \/ errors < MaxOpenFailures
              /\ cv_op' = "batch"
              /\ cv_value' = value
              /\ cv_from' = KM
              /\ cv_to' = M
              /\ cv_ret' = result
              /\ AddHistoryEntry(KM, M, value, result, open_ok)
              /\ last_call' = [op |-> "append", open_ok |-> open_ok]
    /\ UNCHANGED <<ext_vars, clock, prev>>

\* show_history, choice '1': history_count = 0, then save_history.  The
\* choice is offered only when the log is not empty.
ClearHistory ==
    /\ history_count # 0
    /\ \E open_ok \in BOOLEAN :
          /\ open_ok \/ errors < MaxOpenFailures
          /\ history' = << >>
          /\ file' = save_history(<< >>, file, open_ok)
          /\ errors' = IF open_ok THEN errors ELSE errors + 1
          /\ last_call' = [op |-> "clear", open_ok |-> open_ok]
    /\ appended' = 0
    /\ UNCHANGED <<ext_vars, clock, prev, cv_vars>>

NextHist == ConvertAndRecord \/ ClearHistory

SpecHist == InitHist /\ [][NextHist]_vars

-----------------------------------------------------------------------------
(* Processes that save the log and a later process that loads it *)

MaxPersistAppends == 2

MaxRuns == 2

MaxTicks == 1

KG == <<"K", "G">>

LB == <<"L", "B">>

\* What batch_conversion passes to add_history_entry for one value and the
\* two tokens it read: the tokens are not checked.
BatchEntry(value, from, to) ==
    [from |-> from, to |-> to, value |-> value, result |-> convert_value(value, from, to)]

EntrySamples ==
    { BatchEntry(FromInt(1), KM, M),                    \* 1 KM = 1000 M
      BatchEntry(Dec(25, 1), KM, M),                    \* 2.5 KM = 2500 M
      BatchEntry(FromInt(1), KG, LB),                   \* 1 KG = 2.2046226218... LB
      BatchEntry(FromInt(5), << >>, KM),                \* empty source token
      BatchEntry(FromInt(5), <<"A", ",", "B">>, M) }    \* a token with a comma

InitPersist == InitHist

\* main: load_history at startup, into the empty log of a new process.
LoadHistory ==
    /\ last_call.op = "start"
    /\ history' = load_history(history, file)
    /\ appended' = Len(history')
    /\ last_call' = [op |-> "load", open_ok |-> TRUE]
    /\ UNCHANGED <<ext_vars, file, clock, errors, prev, cv_vars>>

\* One value of batch_conversion's loop, with tokens of the user's choice.
RecordEntry ==
    /\ last_call.op # "start"
    /\ appended < MaxPersistAppends
    /\ \E e \in EntrySamples, open_ok \in BOOLEAN :
          /\ open_ok \/ errors < MaxOpenFailures
          /\ cv_op' = "batch"
          /\ cv_value' = e.value
          /\ cv_from' = e.from
          /\ cv_to' = e.to
          /\ cv_ret' = e.result
          /\ AddHistoryEntry(e.from, e.to, e.value, e.result, open_ok)
          /\ last_call' = [op |-> "append", open_ok |-> open_ok]
    /\ UNCHANGED <<ext_vars, clock, prev>>

\* A second of wall-clock time passes.
Tick ==
    /\ clock < Epoch + MaxTicks
    /\ clock' = clock + 1
    /\ UNCHANGED <<ext_vars, history, file, appended, last_call, errors, prev, cv_vars>>

\* The process ends and a new one starts in the same directory: the log in
\* memory is gone, the file stays.
Restart ==
    /\ last_call.op # "start"
    /\ prev.runs < MaxRuns
    /\ prev' = [runs |-> prev.runs + 1, log |-> history,
                persisted |-> last_call.op \in {"append", "clear"} /\ last_call.open_ok]
    /\ history' = << >>
    /\ appended' = 0
    /\ last_call' = [op |-> "start", open_ok |-> TRUE]
    /\ UNCHANGED <<ext_vars, file, clock, errors, cv_vars>>

NextPersist == LoadHistory \/ RecordEntry \/ Tick \/ Restart

SpecPersist == InitPersist /\ [][NextPersist]_vars

-----------------------------------------------------------------------------
(* A process that starts on a history file of any content *)

MaxFileLines == 2

LineSamples ==
    { <<"K", "M", ",", "M", ",", "1", ",", "1", "0", "0", "0", ",", "1", "7">>,    \* KM,M,1,1000,17
      <<"K", ",", "C", ",", "2", "7", "3", ".", "1", "5", ",", "0", ",", "1", "8">>,  \* K,C,273.15,0,18
      <<"K", "M", ",", "M", ",", "1", ",", "1", "0", "0", "0">>,                  \* KM,M,1,1000
      <<"K", "M", ",", "M", ",", "1", ",", "1", "0", "0", "0", ",", "1", "7", ",", "x">>,  \* KM,M,1,1000,17,x
      <<",", "M", ",", "1", ",", "1", "0", "0", "0", ",", "1", "7">>,              \* ,M,1,1000,17
      <<"K", "M", ",", ",", "1", ",", "1", "0", "0", "0", ",", "1", "7">>,         \* KM,,1,1000,17
      <<"K", "M", ",", "M", ",", "x", ",", "1", "0", "0", "0", ",", "1", "7">>,    \* KM,M,x,1000,17
      <<"K", "M", ",", "M", ",", "1", ",", "x", ",", "1", "7">>,                   \* KM,M,1,x,17
      <<"K", "M", ",", "M", ",", "1", ",", "1", "0", "0", "0", ",", "x">>,         \* KM,M,1,1000,x
      <<"K", "M", ",", "M", ",", "1", ",", "1", "0", "0", "0", ",", "1", ".", "5">>,  \* KM,M,1,1000,1.5
      << >> }                                                                    \* an empty line

RECURSIVE FilesOf(_)
FilesOf(k) ==
    IF k = 0 THEN {<< >>}
    ELSE FilesOf(k - 1) \cup {Append(f, l) : f \in {g \in FilesOf(k - 1) : Len(g) = k - 1},
                                              l \in LineSamples}

InitLoad ==
    /\ ConvIdle
    /\ FreshProcess
    /\ file \in {NoFile} \cup {[exists |-> TRUE, lines |-> f] : f \in FilesOf(MaxFileLines)}

SpecLoad == InitLoad /\ [][LoadHistory]_vars

-----------------------------------------------------------------------------
(* Claims on convert_value, under SpecConv *)

Returned == cv_op # "none"

\* C1: called with the symbols of two non-temperature units a and b of one
\* category exactly as they are registered, convert_value returns
\* value * a.factor / b.factor (so 1000 m = 1 km and 1 km = 1000 m).
C1_FactorConversion ==
    cv_op = "test" =>
        \A a, b \in 1..unit_count :
            (/\ ~units[a].is_temp
             /\ ~units[b].is_temp
             /\ units[a].category = units[b].category
             /\ cv_from = units[a].symbol
             /\ cv_to = units[b].symbol)
            => cv_ret = Div(Mul(cv_value, units[a].factor), units[b].factor)

C2_ToCelsius(v, scale) ==
    IF scale = <<"C">> THEN v
    ELSE IF scale = <<"F">> THEN Mul(Sub(v, FromInt(32)), Div(FromInt(5), FromInt(9)))
    ELSE Sub(v, Dec(27315, 2))

C2_FromCelsius(c, scale) ==
    IF scale = <<"C">> THEN c
    ELSE IF scale = <<"F">> THEN Add(Mul(c, Div(FromInt(9), FromInt(5))), FromInt(32))
    ELSE Add(c, Dec(27315, 2))

C2_Example(v, from, to, r) ==
    (Returned /\ cv_value = v /\ cv_from = from /\ cv_to = to) => cv_ret = r

\* C2: for from and to both among C, F, K, convert_value returns the value
\* turned into Celsius (identity, (v - 32) * 5/9, v - 273.15) and from
\* Celsius into the target (identity, c * 9/5 + 32, c + 273.15); so
\* 0 C = 32 F, 0 C = 273.15 K, 32 F = 0 C and 273.15 K = 0 C.
C2_AffineTemperature ==
    /\ (Returned /\ cv_from \in TempScales /\ cv_to \in TempScales)
           => cv_ret = C2_FromCelsius(C2_ToCelsius(cv_value, cv_from), cv_to)
    /\ C2_Example(Zero, <<"C">>, <<"F">>, FromInt(32))
    /\ C2_Example(Zero, <<"C">>, <<"K">>, Dec(27315, 2))
    /\ C2_Example(FromInt(32), <<"F">>, <<"C">>, Zero)
    /\ C2_Example(Dec(27315, 2), <<"K">>, <<"C">>, Zero)

\* 32 F has been converted to K and gave 273.15.
C2_Witness ==
    /\ cv_op = "batch"
    /\ cv_value = FromInt(32)
    /\ cv_from = <<"F">>
    /\ cv_to = <<"K">>
    /\ cv_ret = Dec(27315, 2)

StorageChain == << <<"B">>, <<"K", "B">>, <<"M", "B">>, <<"G", "B">>, <<"T", "B">> >>

\* C3: Digital Storage is byte-based: for each adjacent pair of B, KB, MB,
\* GB, TB, 1024 of the smaller unit is exactly 1 of the larger one.
C3_StorageStep ==
    (/\ Returned
     /\ cv_value = FromInt(1024)
     /\ \E i \in 1..4 : cv_from = StorageChain[i] /\ cv_to = StorageChain[i + 1])
        => cv_ret = FromInt(1)

\* C4: when the source or the target token matches no unit of the registry,
\* the number returned is the input value unchanged (the outcome being an
\* error), never the value scaled by the factor of the other, known unit.
C4_UnknownUnitKeepsValue ==
    (Returned /\ (~unit_exists(cv_from, "All") \/ ~unit_exists(cv_to, "All")))
        => cv_ret = cv_value

\* The categories in which unit_exists accepts a token.
CategoriesOf(token) ==
    {units[i].category : i \in {j \in 1..unit_count : unit_exists(token, units[j].category)}}

\* C5: when both tokens name units but no category holds both, the outcome
\* is CrossCategory with the input value, not a number computed from the two
\* factors; also on the batch path, which calls without a category.
C5_CrossCategoryKeepsValue ==
    (/\ Returned
     /\ unit_exists(cv_from, "All")
     /\ unit_exists(cv_to, "All")
     /\ CategoriesOf(cv_from) \cap CategoriesOf(cv_to) = {})
        => cv_ret = cv_value

-----------------------------------------------------------------------------
(* Claims on the history store, under SpecHist *)

\* C6: after N calls of add_history_entry on an empty log the log holds
\* min(N, 100) entries in insertion order, the last ones appended: entry i
\* is the one of step N - count + i, so with N > 100 the first is that of
\* step N - 99 and those of steps 1 .. N - 100 are gone.
C6_HistoryBound ==
    /\ history_count = Min(appended, MAX_HISTORY)
    /\ \A i \in 1..history_count :
           history[i].value = FromInt(appended - history_count + i)

\* 101 entries were appended: 100 are held and the first is that of step 2.
C6_Witness ==
    /\ appended = MAX_HISTORY + 1
    /\ history_count = MAX_HISTORY
    /\ history[1].value = FromInt(2)
    /\ history[MAX_HISTORY].value = FromInt(MAX_HISTORY + 1)

\* C7: after every append and every clear whose fopen succeeded, the file
\* holds one record per entry of the log, in the order of the log, which is
\* the order of the append calls still in it.
C7_FileMirrorsLog ==
    (last_call.op \in {"append", "clear"} /\ last_call.open_ok) =>
        /\ file.exists
        /\ Len(file.lines) = history_count
        /\ \A i \in 1..history_count :
               /\ file.lines[i] = FormatRecord(history[i])
               /\ Sscanf(file.lines[i]).count = 5
               /\ Sscanf(file.lines[i]).value = FromInt(appended - history_count + i)

\* A save succeeded after an earlier one had failed, on a log that has
\* evicted its first entry.
C7_Witness ==
    /\ last_call = [op |-> "append", open_ok |-> TRUE]
    /\ errors > 0
    /\ appended = MAX_HISTORY + 1
    /\ Len(file.lines) = MAX_HISTORY
    /\ Sscanf(file.lines[1]).value = FromInt(2)

\* C9: when fopen fails in the save_history of an append, an error is
\* printed, the entry is in the log all the same (the oldest one evicted
\* when the log was full), the conversion result was produced, and the file
\* is as it was.
C9_OpenFailureKeepsLog ==
    [][(appended' = appended + 1 /\ ~last_call'.open_ok) =>
          /\ file' = file
          /\ errors' = errors + 1
          /\ Len(history') = Min(history_count + 1, MAX_HISTORY)
          /\ history'[Len(history')].value = cv_value'
          /\ history'[Len(history')].result = cv_ret'
          /\ cv_ret' = Mul(cv_value', FromInt(1000))
          /\ \A i \in 1..(Len(history') - 1) :
                 history'[i] = history[IF history_count = MAX_HISTORY THEN i + 1 ELSE i]
      ]_vars

\* The append of step 101 could not open the file: the log has evicted
\* step 1 and holds step 101, the file still ends with step 100.
C9_Witness ==
    /\ last_call = [op |-> "append", open_ok |-> FALSE]
    /\ appended = MAX_HISTORY + 1
    /\ history[1].value = FromInt(2)
    /\ history[MAX_HISTORY].value = FromInt(MAX_HISTORY + 1)
    /\ Len(file.lines) = MAX_HISTORY
    /\ Sscanf(file.lines[MAX_HISTORY]).value = FromInt(MAX_HISTORY)

-----------------------------------------------------------------------------
(* Claims on saving and loading, under SpecPersist and SpecLoad *)

\* C8: a log built by append calls, with whatever tokens the callers passed,
\* once saved and read by load_history in a new process, comes back with as
\* many entries, in the same order, with the same from, to, value and result
\* and the timestamp in whole seconds.
C8_SaveLoadRoundTrip ==
    (last_call.op = "load" /\ prev.persisted) =>
        /\ Len(history) = Len(prev.log)
        /\ \A i \in 1..Min(Len(history), Len(prev.log)) :
               /\ history[i].from = prev.log[i].from
               /\ history[i].to = prev.log[i].to
               /\ history[i].value = prev.log[i].value
               /\ history[i].result = prev.log[i].result
               /\ history[i].timestamp = prev.log[i].timestamp

C10_Commas(s) == {k \in 1..Len(s) : s[k] = ","}

C10_FirstComma(s) == CHOOSE k \in C10_Commas(s) : \A j \in C10_Commas(s) : k <= j

\* The fields of a line, split at its commas.
RECURSIVE C10_Fields(_)
C10_Fields(s) ==
    IF C10_Commas(s) = {} THEN <<s>>
    ELSE <<SubSeq(s, 1, C10_FirstComma(s) - 1)>>
             \o C10_Fields(SubSeq(s, C10_FirstComma(s) + 1, Len(s)))

C10_Unsigned(s) ==
    IF s # << >> /\ Head(s) \in {"-", "+"} THEN Tail(s) ELSE s

\* A whole field that is a decimal number: an optional sign, digits, at most
\* one point.
C10_Numeric(s) ==
    /\ \A k \in 1..Len(C10_Unsigned(s)) : IsDigit(C10_Unsigned(s)[k]) \/ C10_Unsigned(s)[k] = "."
    /\ \E k \in 1..Len(C10_Unsigned(s)) : IsDigit(C10_Unsigned(s)[k])
    /\ Cardinality({k \in 1..Len(C10_Unsigned(s)) : C10_Unsigned(s)[k] = "."}) <= 1

\* <from>,<to>,<value>,<result>,<unix_seconds>
C10_FiveFieldShape(line) ==
    /\ Len(C10_Fields(line)) = 5
    /\ C10_Fields(line)[1] # << >>
    /\ C10_Fields(line)[2] # << >>
    /\ C10_Numeric(C10_Fields(line)[3])
    /\ C10_Numeric(C10_Fields(line)[4])
    /\ C10_Numeric(C10_Fields(line)[5])

\* C10: load_history adds no entry for a line that is not of the five-field
\* shape (fewer or more than five fields, an empty from or to, a value,
\* result or timestamp that is no number) and goes on with the next line:
\* the log has one entry per well-shaped line of the file.
C10_MalformedLinesDiscarded ==
    last_call.op = "load" =>
        Len(history) = Cardinality({k \in 1..Len(file.lines) : C10_FiveFieldShape(file.lines[k])})

-----------------------------------------------------------------------------
(* handle_conversion *)

prefixes ==
    << [prefix |-> "k", factor |-> FromInt(1000)],      \* kilo
       [prefix |-> "M", factor |-> Norm(1, 1, 6, 6)],   \* mega
       [prefix |-> "G", factor |-> Norm(1, 1, 9, 9)],   \* giga
       [prefix |-> "T", factor |-> Norm(1, 1, 12, 12)], \* tera
       [prefix |-> "m", factor |-> Dec(1, 3)],          \* milli
       [prefix |-> "u", factor |-> Dec(1, 6)],          \* micro
       [prefix |-> "n", factor |-> Dec(1, 9)],          \* nano
       [prefix |-> "p", factor |-> Dec(1, 12)],         \* pico
       [prefix |-> "c", factor |-> Dec(1, 2)],          \* centi
       [prefix |-> "d", factor |-> Dec(1, 1)],          \* deci
       [prefix |-> "h", factor |-> FromInt(100)] >>     \* hecto

PrefixChars == {prefixes[i].prefix : i \in 1..Len(prefixes)}

\* The factor of the first entry of prefixes whose character is c.
PrefixFactor(c) ==
    prefixes[CHOOSE i \in 1..Len(prefixes) :
                 /\ prefixes[i].prefix = c
                 /\ \A j \in 1..(i - 1) : prefixes[j].prefix # c].factor

\* while (*endptr == ' ') endptr++;
RECURSIVE SkipBlanks(_)
SkipBlanks(s) == IF s # << >> /\ s[1] = " " THEN SkipBlanks(Tail(s)) ELSE s

\* The value strtod returns: 0 when no number starts the input.
StrtodValue(r) == IF r.ok THEN r.value ELSE Zero

\* The prefix check and the copy of what is left into unit.
ParsePrefixed(value, endptr) ==
    IF endptr # << >> /\ endptr[1] \in PrefixChars
    THEN [value |-> Mul(value, PrefixFactor(endptr[1])), unit |-> Copy15(Tail(endptr))]
    ELSE [value |-> value, unit |-> Copy15(endptr)]

ParseScanned(r) == ParsePrefixed(StrtodValue(r), SkipBlanks(r.rest))

\* [value, unit]
parse_value_with_prefix(input) == ParseScanned(ScanLf(input))

\* The test that ends a prompt: attempts >= 3, the negation of attempts < 3.
TooManyAttempts_Four(attempts) == attempts >= 4

TooManyAttempts(attempts) == attempts >= 3

MaxCalls == 2

HcCategories == {"Length", "Mass"}

\* Lines a user may type at the value-and-unit prompt.
SourceLines ==
    { <<"5", "k", "m">>,            \* 5km: 5000 and the unit m
      <<"2", " ", "f", "t">>,       \* 2 ft
      <<"3", "l", "b">>,            \* 3lb
      <<"k", "m">>,                 \* km: no number
      <<"7">>,                      \* 7: no unit
      << >> }                       \* an empty line

\* Lines a user may type at the "Convert to" prompt.
TargetLines ==
    { <<"f", "t">>, <<"k", "g">>, <<"x", " ", "y">>, << >> }

\* handle_conversion is called for a category (from show_favorites).
HandleConversion ==
    /\ hc.pc \in {"idle", "returned", "done"}
    /\ hc.calls < MaxCalls
    /\ \E category \in HcCategories :
          hc' = [HcIdle EXCEPT !.pc = "source", !.category = category,
                               !.calls = hc.calls + 1]
    /\ UNCHANGED <<cv_vars, hist_vars, proc, nm, rt>>

\* One pass of the first loop with the line read parsed into value and
\* from_unit, and the test that follows the loop.
SourceStep(input, value, from_unit) ==
    IF unit_exists(from_unit, hc.category)
    THEN /\ hc' = [hc EXCEPT !.pc = "target", !.attempts = 0, !.seen = << >>,
                             !.input = input, !.value = value,
                             !.from_unit = from_unit]
         /\ errors' = errors
    ELSE /\ hc' = [hc EXCEPT !.pc = IF TooManyAttempts(hc.attempts + 1)
                                    THEN "returned" ELSE "source",
                             !.attempts = hc.attempts + 1,
                             !.seen = Append(hc.seen, from_unit),
                             !.input = input, !.value = value,
                             !.from_unit = from_unit]
         /\ errors' = errors + (IF TooManyAttempts(hc.attempts + 1) THEN 2 ELSE 1)

SourceParsed(input, parsed) ==
    SourceStep(input, parsed.value, normalize_unit_name(parsed.unit))

SourcePrompt ==
    /\ hc.pc = "source"
    /\ \E input \in SourceLines : SourceParsed(input, parse_value_with_prefix(input))
    /\ UNCHANGED <<cv_vars, history, file, clock, appended, last_call, prev, proc, nm, rt>>

\* The conversion, its display and add_history_entry.
ConvertAndStore(to_unit, result, open_ok) ==
    /\ hc' = [hc EXCEPT !.pc = "done", !.to_unit = to_unit]
    /\ cv_op' = "menu"
    /\ cv_value' = hc.value
    /\ cv_from' = hc.from_unit
    /\ cv_to' = to_unit
    /\ cv_ret' = result
    /\ AddHistoryEntry(hc.from_unit, to_unit, hc.value, result, open_ok)
    /\ last_call' = [op |-> "append", open_ok |-> open_ok]

\* One pass of the second loop with to_unit as get_clean_input left it, and
\* what follows the loop.
TargetStep(to_unit, open_ok) ==
    IF unit_exists(to_unit, hc.category)
    THEN ConvertAndStore(to_unit, convert_value(hc.value, hc.from_unit, to_unit), open_ok)
    ELSE /\ hc' = [hc EXCEPT !.pc = IF TooManyAttempts(hc.attempts + 1)
                                    THEN "returned" ELSE "target",
                             !.attempts = hc.attempts + 1,
                             !.seen = Append(hc.seen, to_unit),
                             !.to_unit = to_unit]
         /\ errors' = errors + (IF TooManyAttempts(hc.attempts + 1) THEN 2 ELSE 1)
         /\ open_ok
         /\ UNCHANGED <<cv_vars, history, file, appended, last_call>>

TargetPrompt ==
    /\ hc.pc = "target"
    /\ \E line \in TargetLines, open_ok \in BOOLEAN :
          TargetStep(normalize_unit_name(line), open_ok)
    /\ UNCHANGED <<clock, prev, proc, nm, rt>>

InitPrompt == ConvIdle /\ HistIdle

NextPrompt == HandleConversion \/ SourcePrompt \/ TargetPrompt

SpecPrompt == InitPrompt /\ [][NextPrompt]_vars

-----------------------------------------------------------------------------
(* normalize_unit_name on a buffer, applied once and again *)

MaxTokenLen == 3

MaxNormalizeCalls == 2

\* The symbols the registry writes in lower or mixed case, with h, d and w.
MixedCaseTokens ==
    { <<"m">>, <<"k", "m">>, <<"c", "m">>, <<"m", "m">>, <<"i", "n">>, <<"f", "t">>,
      <<"y", "d">>, <<"m", "i">>, <<"s">>, <<"m", "i", "n">>, <<"h", "r">>, <<"h">>,
      <<"d">>, <<"w">>, <<"d", "a", "y">>, <<"w", "e", "e", "k">>, <<"L">>,
      <<"m", "L">>, <<"W">>, <<"k", "W">>, <<"M", "W">>, <<"h", "p">>, <<"P", "a">>,
      <<"k", "P", "a">>, <<"b", "a", "r">>, <<"a", "t", "m">>, <<"p", "s", "i">> }

RECURSIVE StringsUpTo(_)
StringsUpTo(k) ==
    IF k = 0 THEN {<< >>}
    ELSE StringsUpTo(k - 1)
             \cup {Append(s, c) : s \in {t \in StringsUpTo(k - 1) : Len(t) = k - 1},
                                  c \in {"a", "B", " "}}

\* The aliases of the registry, as they are stored.
AliasTokens ==
    {units[p[1]].aliases[p[2]] :
         p \in {q \in (1..unit_count) \X (1..2) : q[2] <= units[q[1]].alias_count}}

\* What a buffer may hold when normalize_unit_name is called on it: what a
\* user typed.
RawTokens == MixedCaseTokens \cup AliasTokens \cup StringsUpTo(MaxTokenLen)

InitNormalize ==
    /\ ConvIdle
    /\ FreshLog
    /\ file = NoFile
    /\ \E raw \in RawTokens :
          nm = [raw |-> raw, before |-> raw, unit |-> raw, calls |-> 0]
    /\ hc = HcIdle
    /\ proc = ProcIdle
    /\ rt = RtIdle

\* normalize_unit_name(unit), in place.
NormalizeUnitName ==
    /\ nm.calls < MaxNormalizeCalls
    /\ nm' = [nm EXCEPT !.before = nm.unit,
                        !.unit = normalize_unit_name(nm.unit),
                        !.calls = nm.calls + 1]
    /\ UNCHANGED <<cv_vars, hist_vars, hc, proc, rt>>

SpecNormalize == InitNormalize /\ [][NormalizeUnitName]_vars

-----------------------------------------------------------------------------
(* A conversion between two units of one category, and the conversion back *)

SameCategoryPairs ==
    {p \in (1..unit_count) \X (1..unit_count) : units[p[1]].category = units[p[2]].category}

\* Pairs of registered symbols of one category, with a value.
RoundInputs ==
    {<<v, units[p[1]].symbol, units[p[2]].symbol>> : v \in Values, p \in SameCategoryPairs}
        \cup {<<Dec(27315, 2), f, t>> : f \in TempScales, t \in TempScales}

InitRound ==
    /\ \E inp \in RoundInputs :
          /\ cv_value = inp[1]
          /\ cv_from = inp[2]
          /\ cv_to = inp[3]
    /\ cv_op = "none"
    /\ cv_ret = Zero
    /\ HistIdle

\* convert_value(v, u1, u2), with the tokens as registered (test_conversion)
\* or normalized (get_clean_input).
ConvertThere ==
    /\ rt.pc = "none"
    /\ \E normalized \in BOOLEAN :
          /\ cv_op' = IF normalized THEN "batch" ELSE "test"
          /\ cv_from' = IF normalized THEN normalize_unit_name(cv_from) ELSE cv_from
          /\ cv_to' = IF normalized THEN normalize_unit_name(cv_to) ELSE cv_to
    /\ cv_ret' = convert_value(cv_value, cv_from', cv_to')
    /\ rt' = [pc |-> "there", back |-> Zero]
    /\ UNCHANGED <<cv_value, hist_vars, hc, proc, nm>>

\* convert_value(result, u2, u1)
ConvertBack ==
    /\ rt.pc = "there"
    /\ rt' = [pc |-> "back", back |-> convert_value(cv_ret, cv_to, cv_from)]
    /\ UNCHANGED <<cv_vars, hist_vars, hc, proc, nm>>

NextRound == ConvertThere \/ ConvertBack

SpecRound == InitRound /\ [][NextRound]_vars

-----------------------------------------------------------------------------
(* main *)

\* argv[1 .. argc-1]
ArgSamples ==
    { << >>,
      << <<"1", "0", "0">>, <<"C">>, <<"F">> >>,      \* 100 C F
      << <<"1">>, <<"k", "m">>, <<"m">> >>,           \* 1 km m
      << <<"1", "0", "0">>, <<"C">> >>,               \* 100 C
      << <<"1", "0", "0">> >> }                       \* 100

\* The lines waiting on standard input.
StdinSamples ==
    { << >>,
      << <<"1", "6">> >>,                             \* 16, the Quit entry
      << <<"q">> >>,
      << <<"1">>, <<"q">> >> }

InitMain ==
    /\ ConvIdle
    /\ FreshLog
    /\ file \in {NoFile} \cup {[exists |-> TRUE, lines |-> f] : f \in FilesOf(MaxFileLines)}
    /\ \E args \in ArgSamples, stdin \in StdinSamples :
          proc = [ProcIdle EXCEPT !.args = args, !.stdin = stdin]
    /\ hc = HcIdle
    /\ nm = NmIdle
    /\ rt = RtIdle

\* load_favorites, which reads another file into favorites[], and
\* show_main_menu, which prints the categories, the five fixed entries and
\* "Enter your choice: " and returns.
ShowMainMenu ==
    /\ last_call.op = "load"
    /\ proc.pc = "running"
    /\ proc.menus = 0
    /\ proc' = [proc EXCEPT !.menus = 1]
    /\ UNCHANGED <<cv_vars, hist_vars, hc, nm, rt>>

\* return 0;
MainReturn ==
    /\ proc.pc = "running"
    /\ proc.menus = 1
    /\ proc' = [proc EXCEPT !.pc = "exited", !.status = 0]
    /\ UNCHANGED <<cv_vars, hist_vars, hc, nm, rt>>

NextMain == LoadHistory \/ ShowMainMenu \/ MainReturn

SpecMain == InitMain /\ [][NextMain]_vars

-----------------------------------------------------------------------------
(* Claims on handle_conversion, under SpecPrompt *)

\* C11: each unit prompt of handle_conversion, the source one and then the
\* target one with a counter of its own, gives up after exactly three
\* invalid tokens in a row and returns; the step that gives up computes no
\* conversion and changes neither the log nor the file, also when the source
\* unit was valid and the target prompt is the one that gives up.
C11_RetryBudget ==
    [][hc.pc \in {"source", "target"} =>
          /\ hc.attempts = Len(hc.seen)
          /\ hc'.pc \in {"source", "target"} => Len(hc'.seen) < 3
          /\ hc'.pc = "returned" <=>
                 (Len(hc.seen) = 2 /\ Len(hc'.seen) = 3)
          /\ hc'.pc = "returned" =>
                 /\ \A k \in 1..3 : ~unit_exists(hc'.seen[k], hc.category)
                 /\ history' = history
                 /\ file' = file
                 /\ appended' = appended
                 /\ cv_vars' = cv_vars
          /\ (hc.pc = "source" /\ hc'.pc = "target") => hc'.seen = << >>
      ]_vars

\* A second call has given up at the target prompt after a valid source
\* unit, with the entry of the first call in the log and in the file.
C11_Witness ==
    /\ hc.pc = "returned"
    /\ hc.calls = 2
    /\ unit_exists(hc.from_unit, hc.category)
    /\ Len(hc.seen) = 3
    /\ \A k \in 1..3 : ~unit_exists(hc.seen[k], hc.category)
    /\ history_count = 1
    /\ Len(file.lines) = 1
    /\ cv_op = "menu"

\* C19: at the value-and-unit prompt a line in which no number can be
\* parsed is an error that uses up an attempt; no conversion is made and no
\* entry recorded for it (with the value 0 strtod returned).
C19_NoNumberNoConversion ==
    hc.pc \in {"target", "done"} => ScanLf(hc.input).ok

-----------------------------------------------------------------------------
(* Claims on normalize_unit_name, under SpecNormalize *)

C12_UpperStripped(s) == SelectSeq([i \in 1..Len(s) |-> toupper(s[i])], LAMBDA c : c # " ")

\* C12: normalize_unit_name leaves a token of the case-preserving allow-list
\* (m, km, cm, mm, in, ft, yd, mi, s, min, hr, h, d, w, day, week, L, mL, W,
\* kW, MW, hp, Pa, kPa, bar, atm, psi) as it is, and uppercases and strips
\* the spaces of every other token.
C12_AllowListPreserved ==
    nm.calls = 1 =>
        nm.unit = IF nm.raw \in MixedCaseTokens THEN nm.raw ELSE C12_UpperStripped(nm.raw)

\* C13: normalize_unit_name is idempotent: applied to its own output it
\* changes nothing.
C13_Idempotent ==
    nm.calls >= 2 => nm.unit = nm.before

\* A token with a lower-case letter and two spaces has been normalized twice.
C13_Witness ==
    /\ nm.calls = 2
    /\ nm.raw = <<" ", " ", "a">>
    /\ nm.before = <<"A">>
    /\ nm.unit = <<"A">>

-----------------------------------------------------------------------------
(* Claims on the registry and on conversions there and back *)

\* C14: in the registry built by initialize_units no two units of one
\* category have the same canonical key, the symbol after normalization: a
\* token names at most one unit of a category.
C14_UniqueKeyPerCategory ==
    \A a, b \in 1..unit_count :
        (/\ Returned
         /\ a # b
         /\ units[a].category = units[b].category
         /\ normalized_symbol[a] = cv_from)
            => normalized_symbol[b] # cv_from

\* C15: converting a value from a unit to another unit of its category and
\* the result back gives the value again (exactly, in exact arithmetic).
C15_RoundTrip ==
    rt.pc = "back" => rt.back = cv_value

\* 32 F went to 273.15 K and came back as 32.
C15_Witness ==
    /\ rt.pc = "back"
    /\ cv_from = <<"F">>
    /\ cv_to = <<"K">>
    /\ cv_value = FromInt(32)
    /\ cv_ret = Dec(27315, 2)
    /\ rt.back = FromInt(32)

\* C20: every alias of the registry is stored in normalized form, so the
\* alias as a user types it, once normalized by the caller, is accepted by
\* unit_exists in the category of its unit and in scope "All".
C20_AliasesNormalized ==
    nm.calls = 1 =>
        \A i \in 1..unit_count : \A j \in 1..units[i].alias_count :
            units[i].aliases[j] = nm.raw =>
                /\ nm.unit = nm.raw
                /\ unit_exists(nm.unit, units[i].category)
                /\ unit_exists(nm.unit, "All")

-----------------------------------------------------------------------------
(* Claims on main, under SpecMain *)

\* C16: started without arguments the program runs a menu loop: it shows
\* the menu, reads a choice and acts on it, again and again, and ends only
\* after the user has picked the quit entry or typed a leading q or Q; it
\* does not exit before it has read a choice.
C16_MenuLoopUntilQuit ==
    (proc.args = << >> /\ proc.pc = "exited") =>
        /\ proc.reads >= 1
        /\ proc.menus >= proc.reads

\* C17: started with the three arguments value, from_unit, to_unit the
\* program makes that one conversion, prints its result, appends exactly one
\* entry for it to the history and exits with status 0.
C17_DirectMode ==
    (Len(proc.args) = 3 /\ proc.pc = "exited") =>
        /\ proc.status = 0
        /\ cv_op # "none"
        /\ cv_value = StrtodValue(ScanLf(proc.args[1]))
        /\ last_call.op = "append"
        /\ history_count >= 1
        /\ history[history_count].value = cv_value
        /\ history[history_count].result = cv_ret

\* C18: started with a number of arguments other than zero or three the
\* program exits with a status other than 0, and neither the log in memory
\* nor the history file is modified.
C18_UsageError ==
    (Len(proc.args) \notin {0, 3} /\ proc.pc = "exited") =>
        /\ proc.status # 0
        /\ last_call.op \notin {"append", "clear"}

-----------------------------------------------------------------------------
(* Claims on the units a token stands for *)

\* The units of a category that unit_exists matches with a token.
MatchedUnits(token, category) ==
    {i \in 1..unit_count :
        /\ units[i].category = category
        /\ \/ normalized_symbol[i] = token
           \/ \E j \in 1..units[i].alias_count : units[i].aliases[j] = token}

Categories == {units[i].category : i \in 1..unit_count}

\* C21: when unit_exists accepts both tokens for a category c, convert_value
\* returns v * factor(from) / factor(to) with the factors of units of c that
\* the tokens matched; no unit of another category supplies a factor.
C21_FactorsOfTheCategory ==
    \A c \in Categories :
        (/\ Returned
         /\ unit_exists(cv_from, c)
         /\ unit_exists(cv_to, c)
         /\ \A i \in MatchedUnits(cv_from, c) \cup MatchedUnits(cv_to, c) : ~units[i].is_temp)
            => \E a \in MatchedUnits(cv_from, c), b \in MatchedUnits(cv_to, c) :
                   cv_ret = Div(Mul(cv_value, units[a].factor), units[b].factor)

-----------------------------------------------------------------------------
(* handle_conversion given a number and a symbol of its category *)

\* The numbers a user types before the symbol.
PromptNumbers == {<<"2">>, <<"1", "0">>}

\* The lines "v s" for the symbols s of a category.
SymbolLines(category) ==
    {p[1] \o <<" ">> \o units[p[2]].symbol :
         p \in {q \in PromptNumbers \X (1..unit_count) : units[q[2]].category = category}}

\* The categories offered: those whose values and results, written with
\* %.8g, stay within the integers of TLC.
SymbolCategories == {"Time", "Speed", "Power", "Pressure", "Temperature"}

InitSymbolPrompt ==
    /\ ConvIdle
    /\ FreshLog
    /\ file = NoFile
    /\ \E category \in SymbolCategories :
          hc = [HcIdle EXCEPT !.pc = "source", !.category = category, !.calls = 1]
    /\ proc = ProcIdle
    /\ nm = NmIdle
    /\ rt = RtIdle

\* One pass of the first loop, the user typing a number and a symbol that
\* show_category_menu has listed.
SourceSymbolLine ==
    /\ hc.pc = "source"
    /\ \E input \in SymbolLines(hc.category) :
          SourceParsed(input, parse_value_with_prefix(input))
    /\ UNCHANGED <<cv_vars, history, file, clock, appended, last_call, prev, proc, nm, rt>>

\* One pass of the second loop, the user typing a symbol of the category.
TargetSymbolLine ==
    /\ hc.pc = "target"
    /\ \E line \in {units[i].symbol : i \in {j \in 1..unit_count : units[j].category = hc.category}},
          open_ok \in BOOLEAN :
          TargetStep(normalize_unit_name(line), open_ok)
    /\ UNCHANGED <<clock, prev, proc, nm, rt>>

NextSymbolPrompt == SourceSymbolLine \/ TargetSymbolLine

SpecSymbolPrompt == InitSymbolPrompt /\ [][NextSymbolPrompt]_vars

\* The pair (value, from_unit) that handle_conversion holds is v in unit i.
C22_SameQuantity(v, i) ==
    \E a \in MatchedUnits(hc.from_unit, hc.category) :
        IF units[i].is_temp
        THEN a = i /\ hc.value = v
        ELSE Mul(hc.value, units[a].factor) = Mul(v, units[i].factor)

\* C22: at the value-and-unit prompt for a category, the line "v s" with s
\* a symbol of the category is accepted as a valid source, and the value and
\* unit then converted and recorded are the same quantity as v in unit s;
\* the prefix parsing makes no registered symbol unusable.
C22_SymbolLineAccepted ==
    \A i \in 1..unit_count, num \in PromptNumbers :
        (/\ units[i].category = hc.category
         /\ hc.input = num \o <<" ">> \o units[i].symbol)
            => /\ hc.pc \in {"target", "done"}
               /\ C22_SameQuantity(StrtodValue(ScanLf(num)), i)

-----------------------------------------------------------------------------
(* Claims on what the interactive flows record *)

\* C23: every entry that handle_conversion or batch_conversion appends to
\* the history names a from token and a to token that were both checked to
\* be units of one common category; an unknown or empty token causes no
\* entry and evicts none.
C23_RecordedTokensValidated ==
    (last_call.op = "append" /\ history_count >= 1) =>
        \E c \in Categories :
            /\ unit_exists(history[history_count].from, c)
            /\ unit_exists(history[history_count].to, c)

=============================================================================
